---- MODULE Spec2Model ----
(***************************************************************************)
(* YUV 4:2:0 -> RGB888 conversion of native_image_processor.cpp: the       *)
(* scalar kernel, the NEON kernel with its scalar tail, the compile-time   *)
(* dispatch and the JNI entry point.                                       *)
(***************************************************************************)
EXTENDS Integers, Sequences, FiniteSets, TLC

\* ------------------------------------------------------------------ bounds
MaxWidth == 17
MaxHeight == 3
\* a row stride may exceed the packed stride by up to MaxPad bytes ...
MaxPad == 1
\* ... or (a caller's mistake) fall short of it by up to MaxShort bytes
MaxShort == 1

\* ------------------------------------------------------- program constants
LaneWidth == 8
\* a faulty variant of ChromaCenter: off by one
ChromaCenterOffByOne == 128 - 1
ChromaCenter == 128
v_c1 == 359
v_c2 == 88
v_c3 == 183
v_c4 == 454
\* the float literals as binary32 values m * 2^-e (24-bit significand m)
F1402 == [m |-> 11760828, e |-> 23]
F0344136 == [m |-> 11547288, e |-> 25]
F0714136 == [m |-> 11981214, e |-> 24]
F1772 == [m |-> 14864613, e |-> 23]

Byte == 0..255
Centered == (0 - ChromaCenter)..(255 - ChromaCenter)

\* --------------------------------------------------------------- arithmetic
Abs(x) == IF x < 0 THEN 0 - x ELSE x

RECURSIVE Pow2(_)
Pow2(n) == IF n <= 0 THEN 1 ELSE 2 * Pow2(n - 1)

RECURSIVE BitLen(_)
BitLen(a) == IF a <= 0 THEN 0 ELSE 1 + BitLen(a \div 2)

\* binary32 rounding of a non-negative integer significand: keep 24 bits,
\* round to nearest, ties to even
F32Round(a) ==
  LET k == BitLen(a) - 24 IN
  IF k <= 0 THEN a
  ELSE LET q == a \div Pow2(k)
           rem == a % Pow2(k)
           half == Pow2(k - 1)
           up == rem > half \/ (rem = half /\ q % 2 = 1)
       IN (IF up THEN q + 1 ELSE q) * Pow2(k)

\* float * int: the int converts exactly, the product is rounded to binary32;
\* the value is (neg ? -1 : 1) * mag * 2^-e
F32MulInt(c, d) == [neg |-> d < 0, mag |-> F32Round(c.m * Abs(d)), e |-> c.e]

\* a faulty variant of FloatToInt: rounds toward minus infinity (floorf) instead
FloatToIntFloor(f) ==
  IF f.neg THEN 0 - ((f.mag + Pow2(f.e) - 1) \div Pow2(f.e))
  ELSE f.mag \div Pow2(f.e)

\* the C cast (int)x of a float: truncation toward zero
FloatToInt(f) ==
  IF f.neg THEN 0 - (f.mag \div Pow2(f.e)) ELSE f.mag \div Pow2(f.e)

\* (int)(c * (x - 128)) for each of the four literals, tabulated over the
\* centered chroma values
Term1402 == [d \in Centered |-> FloatToInt(F32MulInt(F1402, d))]
Term0344136 == [d \in Centered |-> FloatToInt(F32MulInt(F0344136, d))]
Term0714136 == [d \in Centered |-> FloatToInt(F32MulInt(F0714136, d))]
Term1772 == [d \in Centered |-> FloatToInt(F32MulInt(F1772, d))]

clamp255(value) == IF value < 0 THEN 0 ELSE IF value > 255 THEN 255 ELSE value

\* a faulty variant of ScalarRGB: luma is first rescaled from the 16..235 range
ScalarRGBStudioSwing(y, u, v) ==
  LET ys == ((y - 16) * 255) \div 219
      r == ys + Term1402[v - ChromaCenter]
      g == ys - Term0344136[u - ChromaCenter] - Term0714136[v - ChromaCenter]
      b == ys + Term1772[u - ChromaCenter]
  IN <<clamp255(r), clamp255(g), clamp255(b)>>

\* one pixel of the scalar formula: <<R, G, B>>
ScalarRGB(y, u, v) ==
  LET r == y + Term1402[v - ChromaCenter]
      g == y - Term0344136[u - ChromaCenter] - Term0714136[v - ChromaCenter]
      b == y + Term1772[u - ChromaCenter]
  IN <<clamp255(r), clamp255(g), clamp255(b)>>

\* ------------------------------------------------------- NEON lane arithmetic
Int16 == -32768..32767
Wrap16(x) == ((x + 32768) % 65536) - 32768

vsubq_s16(a, b) == Wrap16(a - b)
vaddq_s16(a, b) == Wrap16(a + b)
vmulq_s16(a, b) == Wrap16(a * b)
vshrq_n_s16(a, n) == a \div Pow2(n)
vqmovun_s16(a) == IF a < 0 THEN 0 ELSE IF a > 255 THEN 255 ELSE a

\* one element of the eight-element lane: the bytes stored and, in exact, the
\* mathematical result of every 16-bit lane operation on its actual operands
NeonLane(y, u, v) ==
  LET u_shifted == vsubq_s16(u, ChromaCenter)
      v_shifted == vsubq_s16(v, ChromaCenter)
      r_mul == vmulq_s16(v_c1, v_shifted)
      r_contrib == vshrq_n_s16(r_mul, 8)
      r == vaddq_s16(y, r_contrib)
      g_mul1 == vmulq_s16(v_c2, u_shifted)
      g_mul2 == vmulq_s16(v_c3, v_shifted)
      g_contrib1 == vshrq_n_s16(g_mul1, 8)
      g_contrib2 == vshrq_n_s16(g_mul2, 8)
      g_sub1 == vsubq_s16(y, g_contrib1)
      g == vsubq_s16(g_sub1, g_contrib2)
      b_mul == vmulq_s16(v_c4, u_shifted)
      b_contrib == vshrq_n_s16(b_mul, 8)
      b == vaddq_s16(y, b_contrib)
  IN [rgb |-> <<vqmovun_s16(r), vqmovun_s16(g), vqmovun_s16(b)>>,
      exact |-> {u - ChromaCenter, v - ChromaCenter,
                 v_c1 * v_shifted, v_c2 * u_shifted,
                 v_c3 * v_shifted, v_c4 * u_shifted,
                 r_contrib, g_contrib1, g_contrib2, b_contrib,
                 y + r_contrib, y - g_contrib1, g_sub1 - g_contrib2,
                 y + b_contrib}]

\* ------------------------------------------------------------------- memory
\* a plane is a function from 0..len-1 to bytes; a read past its end is
\* undefined behaviour and yields the byte junk when it does not fault
Load(plane, idx, junk) == IF idx \in DOMAIN plane THEN plane[idx] ELSE junk

\* what a kernel has done: the bytes it stored (out, by offset), which pixel
\* and channel stored each offset (owner), the plane indices it read (yRead;
\* uvRead, the same index being read from both chroma planes), the chroma
\* index each pixel used (uvOf), for a pixel of a vector lane the number of
\* the chroma sample u_vals[i] it was fed (laneOf), and the exact results of
\* the 16-bit lane operations (exact)
NoTrace ==
  [out |-> <<>>, owner |-> <<>>, yRead |-> {}, uvRead |-> {},
   uvOf |-> <<>>, laneOf |-> <<>>, exact |-> {}]

StoreRGB(st, off, rgb, row, col) ==
  [st EXCEPT
     !.out = (off :> rgb[1]) @@ ((off + 1) :> rgb[2]) @@ ((off + 2) :> rgb[3]) @@ @,
     !.owner = (off :> <<row, col, 0>>) @@ ((off + 1) :> <<row, col, 1>>)
                 @@ ((off + 2) :> <<row, col, 2>>) @@ @]

\* ------------------------------------------------------------ scalar kernel
\* a faulty variant of ScalarYIndex: the luma rows are taken to be packed
ScalarYIndexPacked(a, row, col) == row * a.width + col

ScalarYIndex(a, row, col) == row * a.yRowStride + col

\* a faulty variant of ScalarUvIndex: the chroma column is not halved
ScalarUvIndexFullCol(a, row, col) ==
  (row \div 2) * a.uvRowStride + col * a.uvPixelStride

ScalarUvIndex(a, row, col) ==
  LET uvRow == row \div 2
      uvCol == col \div 2
  IN uvRow * a.uvRowStride + uvCol * a.uvPixelStride

\* the body of the inner loop; s = [st, rgbIndex]
ScalarPixel(a, s, row, col) ==
  LET yIndex == ScalarYIndex(a, row, col)
      uvIndex == ScalarUvIndex(a, row, col)
      y == Load(a.yPlane, yIndex, a.junk)
      u == Load(a.uPlane, uvIndex, a.junk)
      v == Load(a.vPlane, uvIndex, a.junk)
      st1 == [s.st EXCEPT !.yRead = @ \cup {yIndex},
                          !.uvRead = @ \cup {uvIndex},
                          !.uvOf = (<<row, col>> :> uvIndex) @@ @]
  IN [st |-> StoreRGB(st1, s.rgbIndex, ScalarRGB(y, u, v), row, col),
      rgbIndex |-> s.rgbIndex + 3]

RECURSIVE ScalarCols(_, _, _, _)
ScalarCols(a, s, row, col) ==
  IF col < a.width
  THEN ScalarCols(a, ScalarPixel(a, s, row, col), row, col + 1)
  ELSE s

RECURSIVE ScalarRows(_, _, _)
ScalarRows(a, s, row) ==
  IF row < a.height
  THEN ScalarRows(a, ScalarCols(a, s, row, 0), row + 1)
  ELSE s

convertYuv420ToRgbScalar(a) == ScalarRows(a, [st |-> NoTrace, rgbIndex |-> 0], 0).st

\* -------------------------------------------------------------- NEON kernel
\* u8[] / v8[]: the chroma sample u_vals[DupIndex[j]] feeds lane element j
\* (lane elements numbered from 1 here)
DupIndex == <<0, 0, 1, 1, 2, 2, 3, 3>>

\* a faulty variant of NeonUvIndex: the chroma pixel stride is dropped
NeonUvIndexNoStride(a, uvRowOffset, col, i) == uvRowOffset + ((col \div 2) + i)

NeonUvIndex(a, uvRowOffset, col, i) ==
  uvRowOffset + ((col \div 2) + i) * a.uvPixelStride

\* one pass of the 8-pixel loop body at (row, col)
NeonBlock(a, st, row, col) ==
  LET rgbRowOffset == row * a.width * 3
      yRowOffset == row * a.yRowStride
      uvRowOffset == (row \div 2) * a.uvRowStride
      y8 == [j \in 1..LaneWidth |-> Load(a.yPlane, yRowOffset + col + (j - 1), a.junk)]
      uvIdx == [i \in 0..3 |-> NeonUvIndex(a, uvRowOffset, col, i)]
      u_vals == [i \in 0..3 |-> Load(a.uPlane, uvIdx[i], a.junk)]
      v_vals == [i \in 0..3 |-> Load(a.vPlane, uvIdx[i], a.junk)]
      lane == [j \in 1..LaneWidth |->
                 NeonLane(y8[j], u_vals[DupIndex[j]], v_vals[DupIndex[j]])]
      st1 == [st EXCEPT
                !.yRead = @ \cup {yRowOffset + col + (j - 1) : j \in 1..LaneWidth},
                !.uvRead = @ \cup {uvIdx[i] : i \in 0..3},
                !.uvOf = [p \in {<<row, col + (j - 1)>> : j \in 1..LaneWidth} |->
                            uvIdx[DupIndex[p[2] - col + 1]]] @@ @,
                !.laneOf = [p \in {<<row, col + (j - 1)>> : j \in 1..LaneWidth} |->
                              DupIndex[p[2] - col + 1]] @@ @,
                !.exact = @ \cup UNION {lane[j].exact : j \in 1..LaneWidth}]
      \* vst3_u8: element j goes to bytes 3(j-1) .. 3(j-1)+2 of the 24 stored
      RECURSIVE Vst3(_, _)
      Vst3(s, j) ==
        IF j > LaneWidth THEN s
        ELSE Vst3(StoreRGB(s, rgbRowOffset + col * 3 + 3 * (j - 1), lane[j].rgb,
                           row, col + (j - 1)), j + 1)
  IN Vst3(st1, 1)

\* one pass of the trailing scalar loop body at (row, col)
NeonTailPixel(a, st, row, col) ==
  LET rgbRowOffset == row * a.width * 3
      yRowOffset == row * a.yRowStride
      uvRowOffset == (row \div 2) * a.uvRowStride
      yIndex == yRowOffset + col
      uvIndex == uvRowOffset + (col \div 2) * a.uvPixelStride
      y_val == Load(a.yPlane, yIndex, a.junk)
      u_val == Load(a.uPlane, uvIndex, a.junk)
      v_val == Load(a.vPlane, uvIndex, a.junk)
      rgbIdx == rgbRowOffset + col * 3
      st1 == [st EXCEPT !.yRead = @ \cup {yIndex},
                        !.uvRead = @ \cup {uvIndex},
                        !.uvOf = (<<row, col>> :> uvIndex) @@ @]
  IN StoreRGB(st1, rgbIdx, ScalarRGB(y_val, u_val, v_val), row, col)

\* a faulty variant of NeonTailFrom: the trailing loop is missing
NeonTailFromNone(a, st, row, col) == st

RECURSIVE NeonTailFrom(_, _, _, _)
NeonTailFrom(a, st, row, col) ==
  IF col < a.width
  THEN NeonTailFrom(a, NeonTailPixel(a, st, row, col), row, col + 1)
  ELSE st

RECURSIVE NeonBlocksFrom(_, _, _, _)
NeonBlocksFrom(a, st, row, col) ==
  IF col + LaneWidth <= a.width
  THEN NeonBlocksFrom(a, NeonBlock(a, st, row, col), row, col + LaneWidth)
  ELSE NeonTailFrom(a, st, row, col)

RECURSIVE NeonRows(_, _, _)
NeonRows(a, st, row) ==
  IF row < a.height
  THEN NeonRows(a, NeonBlocksFrom(a, st, row, 0), row + 1)
  ELSE st

convertYuv420ToRgbNeon(a) == NeonRows(a, NoTrace, 0)

\* ----------------------------------------------------------------- dispatch
convertYuv420ToRgb(a, USE_NEON) ==
  IF USE_NEON THEN convertYuv420ToRgbNeon(a) ELSE convertYuv420ToRgbScalar(a)

\* ------------------------------------------------------------------- inputs
\* the logical image a caller hands in: a solid colour, or a ramp in which
\* neighbouring samples differ
YSamples == {0, 16, 100, 235, 255}
CSamples == {0, 36, 37, 127, 128, 129, 201, 220, 255}
UniformFrames ==
  [kind : {"uniform"}, y : Byte, u : {128}, v : {128}]
    \cup [kind : {"uniform"}, y : YSamples, u : CSamples, v : CSamples]
RampFrames == {[kind |-> "ramp", y |-> 16, u |-> 90, v |-> 140]}
PadBytes == {7, 250}
JunkBytes == {0, 255}

LumaAt(f, r, c) ==
  IF f.kind = "uniform" THEN f.y ELSE (f.y + 29 * r + 13 * c) % 256
ChromaUAt(f, cr, cc) ==
  IF f.kind = "uniform" THEN f.u ELSE (f.u + 53 * cr + 17 * cc) % 256
ChromaVAt(f, cr, cc) ==
  IF f.kind = "uniform" THEN f.v ELSE (f.v + 71 * cr + 31 * cc) % 256

\* chroma planes are half resolution, rounded up
HalfUp(n) == (n + 1) \div 2

\* the luma plane of logical image f with row stride stride: h * stride bytes,
\* the bytes of a row beyond the image being padding
LumaPlane(f, w, h, stride, padByte) ==
  [i \in 0..(h * stride - 1) |->
     IF i % stride < w THEN LumaAt(f, i \div stride, i % stride) ELSE padByte]

\* a chroma plane: HalfUp(h) * stride bytes, a sample every ps bytes
ChromaPlane(plane, f, w, h, stride, ps, padByte) ==
  [i \in 0..(HalfUp(h) * stride - 1) |->
     LET b == i % stride IN
     IF b % ps = 0 /\ b \div ps < HalfUp(w)
     THEN (IF plane = "u" THEN ChromaUAt(f, i \div stride, b \div ps)
           ELSE ChromaVAt(f, i \div stride, b \div ps))
     ELSE padByte]

PackedYStride(w) == w
PackedUvStride(w, ps) == HalfUp(w) * ps
\* the strides a caller passes: each at least the packed stride, or one of
\* the two too short
StridePairs(w, ps) ==
  LET ty == PackedYStride(w)
      tc == PackedUvStride(w, ps)
  IN {p \in ((ty..(ty + MaxPad)) \X (tc..(tc + MaxPad)))
            \cup (((ty - MaxShort)..(ty - 1)) \X {tc})
            \cup ({ty} \X ((tc - MaxShort)..(tc - 1))) :
        p[1] >= 1 /\ p[2] >= 1}

\* -------------------------------------------------------------------- state
VARIABLES
  width, height, yRowStride, uvRowStride, uvPixelStride,  \* the geometry passed
  useNeon,        \* USE_NEON of the build
  frame, pad,     \* the logical image and the padding byte of the planes
  yPlane, uPlane, vPlane,   \* the plane buffers
  pc,             \* "ready", "returned" or "fault"
  call,           \* the function called: "none", "jni", "scalar", "neon"
  nullArgs,       \* the planes whose GetDirectBufferAddress gave nullptr
  heap,           \* new[] and delete[] executed
  kernel,         \* the kernel that ran: "none", "scalar", "neon"
  tr,             \* what the kernel did
  result          \* the jbyteArray returned by the JNI entry

inputs == <<width, height, yRowStride, uvRowStride, uvPixelStride, useNeon,
            frame, pad, yPlane, uPlane, vPlane>>
vars == <<inputs, pc, call, nullArgs, heap, kernel, tr, result>>

NullResult == [isNull |-> TRUE, bytes |-> <<>>]

InitBuffers ==
  /\ yPlane = LumaPlane(frame, width, height, yRowStride, pad)
  /\ uPlane = ChromaPlane("u", frame, width, height, uvRowStride, uvPixelStride, pad)
  /\ vPlane = ChromaPlane("v", frame, width, height, uvRowStride, uvPixelStride, pad)

\* any geometry, a ramp image
InitGeometry ==
  /\ width \in 0..MaxWidth
  /\ height \in 0..MaxHeight
  /\ uvPixelStride \in 1..2
  /\ \E p \in StridePairs(width, uvPixelStride) :
       yRowStride = p[1] /\ uvRowStride = p[2]
  /\ frame \in RampFrames
  /\ pad \in PadBytes

\* a packed 8x1 or 2x2 image of one solid colour
InitColour ==
  /\ \E g \in {<<LaneWidth, 1>>, <<2, 2>>} : width = g[1] /\ height = g[2]
  /\ uvPixelStride = 1
  /\ yRowStride = PackedYStride(width)
  /\ uvRowStride = PackedUvStride(width, uvPixelStride)
  /\ frame \in UniformFrames
  /\ pad = 0

InitRest ==
  /\ useNeon \in BOOLEAN
  /\ InitBuffers
  /\ pc = "ready"
  /\ call = "none"
  /\ nullArgs = {}
  /\ heap = [allocs |-> 0, frees |-> 0]
  /\ kernel = "none"
  /\ tr = NoTrace
  /\ result = NullResult

\* ------------------------------------------------------------------ actions
Args(junk) ==
  [yPlane |-> yPlane, uPlane |-> uPlane, vPlane |-> vPlane,
   width |-> width, height |-> height, yRowStride |-> yRowStride,
   uvRowStride |-> uvRowStride, uvPixelStride |-> uvPixelStride, junk |-> junk]

\* some read of the kernel fell outside its plane
OutOfBounds(t) ==
  \/ \E i \in t.yRead : i \notin DOMAIN yPlane
  \/ \E i \in t.uvRead : i \notin DOMAIN uPlane \/ i \notin DOMAIN vPlane

\* the three conversion functions of yuv_to_rgb.h
Invoke(entry, a) ==
  CASE entry = "scalar" -> convertYuv420ToRgbScalar(a)
    [] entry = "neon" -> convertYuv420ToRgbNeon(a)
    [] entry = "convert" -> convertYuv420ToRgb(a, useNeon)

\* the outcomes of running a conversion function on the planes: with every read in bounds
\* the one trace; otherwise a fault, or a return on whatever byte was read
Outcomes(entry) ==
  LET t0 == Invoke(entry, Args(0)) IN
  IF OutOfBounds(t0)
  THEN {[pc |-> "fault", tr |-> t0]}
         \cup {[pc |-> "returned", tr |-> Invoke(entry, Args(j))] : j \in JunkBytes}
  ELSE {[pc |-> "returned", tr |-> t0]}

CallScalar ==
  /\ pc = "ready"
  /\ \E o \in Outcomes("scalar") :
       /\ pc' = o.pc
       /\ tr' = o.tr
  /\ call' = "scalar"
  /\ kernel' = "scalar"
  /\ UNCHANGED <<inputs, nullArgs, heap, result>>

CallNeon ==
  /\ pc = "ready"
  /\ useNeon
  /\ \E o \in Outcomes("neon") :
       /\ pc' = o.pc
       /\ tr' = o.tr
  /\ call' = "neon"
  /\ kernel' = "neon"
  /\ UNCHANGED <<inputs, nullArgs, heap, result>>

\* a faulty variant of BuffersValid: only the luma pointer is tested
BuffersValidLumaOnly(nulls) == "y" \notin nulls

\* the test !yPlane || !uPlane || !vPlane, negated
BuffersValid(nulls) == "y" \notin nulls /\ "u" \notin nulls /\ "v" \notin nulls

\* the JNI entry; nulls are the planes GetDirectBufferAddress resolves to nullptr.
\* Reading through a null plane pointer faults.
JniConvertYuvToRgb ==
  /\ pc = "ready"
  /\ call' = "jni"
  /\ \E nulls \in SUBSET {"y", "u", "v"} :
       /\ nullArgs' = nulls
       /\ IF ~BuffersValid(nulls)
          THEN /\ pc' = "returned"
               /\ result' = NullResult
               /\ UNCHANGED <<heap, kernel, tr>>
          ELSE LET rgbSize == width * height * 3 IN
               \E o \in Outcomes("convert") : \E j \in JunkBytes :
                 /\ kernel' = IF useNeon THEN "neon" ELSE "scalar"
                 /\ tr' = o.tr
                 /\ IF nulls # {} \/ o.pc = "fault"
                    THEN /\ pc' = "fault"
                         /\ heap' = [heap EXCEPT !.allocs = @ + 1]
                         /\ result' = NullResult
                    ELSE /\ pc' = "returned"
                         /\ heap' = [allocs |-> heap.allocs + 1, frees |-> heap.frees + 1]
                         /\ result' = [isNull |-> FALSE,
                                       bytes |-> [i \in 0..(rgbSize - 1) |->
                                                    Load(o.tr.out, i, j)]]
  /\ UNCHANGED inputs

Next == CallScalar \/ CallNeon \/ JniConvertYuvToRgb

\* conversions of ramp images of every geometry
Init == InitGeometry /\ InitRest
Spec == Init /\ [][Next]_vars

\* conversions of packed images of one colour
InitSolid == InitColour /\ InitRest
SpecColour == InitSolid /\ [][Next]_vars

\* ------------------------------------------------------------------- claims
Pixels == (0..(height - 1)) \X (0..(width - 1))
LanePixels == DOMAIN tr.laneOf
RgbOffset(p) == (p[1] * width + p[2]) * 3
RgbAt(out, p) == <<out[RgbOffset(p)], out[RgbOffset(p) + 1], out[RgbOffset(p) + 2]>>

\* the Y, U, V of the logical image at pixel p
PixelY(p) == LumaAt(frame, p[1], p[2])
PixelU(p) == ChromaUAt(frame, p[1] \div 2, p[2] \div 2)
PixelV(p) == ChromaVAt(frame, p[1] \div 2, p[2] \div 2)

\* the strides describe a layout of the width x height image
LayoutValid ==
  /\ yRowStride >= width
  /\ uvRowStride > (HalfUp(width) - 1) * uvPixelStride

KernelReturned == pc = "returned" /\ kernel # "none"

TruncDiv(n, d) == IF n < 0 THEN 0 - ((0 - n) \div d) ELSE n \div d

\* C1: every byte a full 8-column lane of the NEON kernel stores is within 1
\* of the byte the scalar kernel stores for the same pixel.
C1_LaneWithinOneOfScalar ==
  (KernelReturned /\ kernel = "neon" /\ ~OutOfBounds(tr)) =>
    LET ref == convertYuv420ToRgbScalar(Args(0)).out IN
    \A p \in LanePixels : \A ch \in 0..2 :
      Abs(tr.out[RgbOffset(p) + ch] - ref[RgbOffset(p) + ch]) <= 1

\* C2: a conversion that returns has stored exactly the offsets
\* 0 .. width*height*3 - 1, pixel (row, col) storing channel ch at offset
\* (row*width + col)*3 + ch.
C2_OutputExactlyCovered ==
  KernelReturned =>
    /\ DOMAIN tr.out = 0..(width * height * 3 - 1)
    /\ \A p \in Pixels : \A ch \in 0..2 :
         tr.owner[RgbOffset(p) + ch] = <<p[1], p[2], ch>>

C2_Witness ==
  /\ KernelReturned /\ kernel = "neon"
  /\ width = 17 /\ height = 3
  /\ Cardinality(LanePixels) = 48
  /\ Cardinality(DOMAIN tr.out) = 153

\* C3 as stated: the 2x2 image with Y = 16, U = V = 128 converts to four
\* pixels (0,0,0).
C3_BlackPointIsZero ==
  (KernelReturned /\ width = 2 /\ height = 2
     /\ frame = [kind |-> "uniform", y |-> 16, u |-> 128, v |-> 128]) =>
    \A p \in Pixels : RgbAt(tr.out, p) = <<0, 0, 0>>

\* C3 amended: the 2x2 image with Y = 16, U = V = 128 converts to four
\* pixels (16,16,16): luma is not rescaled from the 16..235 range.
C3_BlackPointIsSixteen ==
  (KernelReturned /\ width = 2 /\ height = 2
     /\ frame = [kind |-> "uniform", y |-> 16, u |-> 128, v |-> 128]) =>
    /\ DOMAIN tr.out = 0..11
    /\ \A p \in Pixels : RgbAt(tr.out, p) = <<16, 16, 16>>

C3_Witness ==
  /\ KernelReturned /\ kernel = "scalar" /\ width = 2 /\ height = 2
  /\ frame = [kind |-> "uniform", y |-> 16, u |-> 128, v |-> 128]
  /\ tr.out[11] = 16

\* C4: a pixel whose chroma is neutral (U = V = 128) converts to R = G = B = Y,
\* in the scalar kernel and in the NEON kernel, for every Y.
C4_NeutralChromaIsGray ==
  (KernelReturned /\ LayoutValid) =>
    \A p \in Pixels :
      (PixelU(p) = 128 /\ PixelV(p) = 128) =>
        RgbAt(tr.out, p) = <<PixelY(p), PixelY(p), PixelY(p)>>

C4_Witness ==
  /\ KernelReturned /\ kernel = "neon" /\ LanePixels # {}
  /\ frame = [kind |-> "uniform", y |-> 255, u |-> 128, v |-> 128]
  /\ RgbAt(tr.out, <<0, 7>>) = <<255, 255, 255>>

\* C5: every pixel (row, col) takes its U and V from chroma index
\* (row/2)*uvRowStride + (col/2)*uvPixelStride, so a 2x2 luma block shares
\* one sample; in a vector lane chroma sample i feeds exactly elements 2i
\* and 2i+1; and the bytes stored are the formula's value on those samples.
C5_ChromaSharedBy2x2 ==
  KernelReturned =>
    /\ DOMAIN tr.uvOf = Pixels
    /\ \A p \in Pixels :
         /\ tr.uvOf[p] = (p[1] \div 2) * uvRowStride + (p[2] \div 2) * uvPixelStride
         /\ tr.uvOf[p] = tr.uvOf[<<2 * (p[1] \div 2), 2 * (p[2] \div 2)>>]
    /\ \A p \in LanePixels : \A i \in 0..3 :
         (tr.laneOf[p] = i) <=> (p[2] % LaneWidth \in {2 * i, 2 * i + 1})
    /\ ~OutOfBounds(tr) =>
         \A p \in Pixels :
           LET y == yPlane[p[1] * yRowStride + p[2]]
               u == uPlane[tr.uvOf[p]]
               v == vPlane[tr.uvOf[p]]
           IN RgbAt(tr.out, p) =
                IF p \in LanePixels THEN NeonLane(y, u, v).rgb ELSE ScalarRGB(y, u, v)

C5_Witness ==
  /\ KernelReturned /\ kernel = "neon"
  /\ width >= 10 /\ height = 3 /\ uvPixelStride = 2
  /\ <<2, 7>> \in LanePixels /\ tr.laneOf[<<2, 7>>] = 3
  /\ <<2, 9>> \in Pixels \ LanePixels
  /\ tr.uvOf[<<2, 9>>] = uvRowStride + 8

\* C6: when a plane buffer resolves to a null address the entry point
\* returns the null result: nothing allocated, no kernel run, no plane read.
C6_NullPlaneFailsCleanly ==
  (call = "jni" /\ nullArgs # {}) =>
    /\ pc = "returned"
    /\ result.isNull
    /\ heap.allocs = 0
    /\ kernel = "none"
    /\ tr = NoTrace

C6_Witness ==
  call = "jni" /\ nullArgs = {"v"} /\ pc = "returned" /\ result.isNull

\* the planes of the same logical image, packed
PackedArgs ==
  [yPlane |-> LumaPlane(frame, width, height, PackedYStride(width), pad),
   uPlane |-> ChromaPlane("u", frame, width, height,
                          PackedUvStride(width, uvPixelStride), uvPixelStride, pad),
   vPlane |-> ChromaPlane("v", frame, width, height,
                          PackedUvStride(width, uvPixelStride), uvPixelStride, pad),
   width |-> width, height |-> height, yRowStride |-> PackedYStride(width),
   uvRowStride |-> PackedUvStride(width, uvPixelStride),
   uvPixelStride |-> uvPixelStride, junk |-> 0]

\* C7: the output for planes with padded rows is byte for byte the output of
\* the same kernel for the packed planes of the same logical image.
C7_StrideIndependent ==
  (KernelReturned /\ yRowStride >= PackedYStride(width)
     /\ uvRowStride >= PackedUvStride(width, uvPixelStride)) =>
    tr.out = (IF kernel = "neon" THEN convertYuv420ToRgbNeon(PackedArgs)
              ELSE convertYuv420ToRgbScalar(PackedArgs)).out

C7_Witness ==
  /\ KernelReturned /\ kernel = "neon"
  /\ width = 9 /\ height = 3
  /\ yRowStride > PackedYStride(width)
  /\ uvRowStride > PackedUvStride(width, uvPixelStride)
  /\ pad = 250
  /\ Cardinality(DOMAIN tr.out) = 81

\* C8: no 16-bit lane operation of the NEON kernel overflows: every exact
\* intermediate lies in -32768..32767.
C8_NoLaneOverflow ==
  (KernelReturned /\ kernel = "neon" /\ ~OutOfBounds(tr)) => tr.exact \subseteq Int16

\* C9 as stated: each scalar channel is the saturation of the truncation
\* toward zero of the whole sum.
C9_WholeSumTruncated ==
  (KernelReturned /\ kernel = "scalar" /\ LayoutValid) =>
    \A p \in Pixels :
      LET y == PixelY(p)
          du == PixelU(p) - 128
          dv == PixelV(p) - 128
      IN RgbAt(tr.out, p) =
           <<clamp255(TruncDiv(1000 * y + 1402 * dv, 1000)),
             clamp255(TruncDiv(1000000 * y - 344136 * du - 714136 * dv, 1000000)),
             clamp255(TruncDiv(1000 * y + 1772 * du, 1000))>>

\* C9 amended: each scalar channel is the saturation of Y plus or minus the
\* chroma terms, each term truncated toward zero on its own.
C9_EachTermTruncated ==
  (KernelReturned /\ kernel = "scalar" /\ LayoutValid) =>
    \A p \in Pixels :
      LET y == PixelY(p)
          du == PixelU(p) - 128
          dv == PixelV(p) - 128
          Sat(x) == IF x < 0 THEN 0 ELSE IF x > 255 THEN 255 ELSE x
      IN /\ RgbAt(tr.out, p) =
              <<Sat(y + TruncDiv(1402 * dv, 1000)),
                Sat(y - TruncDiv(344136 * du, 1000000) - TruncDiv(714136 * dv, 1000000)),
                Sat(y + TruncDiv(1772 * du, 1000))>>
         \* and the binary32 products truncate as the decimal ones do, for
         \* every chroma value
         /\ \A d \in Centered :
              /\ Term1402[d] = TruncDiv(1402 * d, 1000)
              /\ Term0344136[d] = TruncDiv(344136 * d, 1000000)
              /\ Term0714136[d] = TruncDiv(714136 * d, 1000000)
              /\ Term1772[d] = TruncDiv(1772 * d, 1000)

C9_Witness ==
  /\ KernelReturned /\ kernel = "scalar"
  /\ frame = [kind |-> "uniform", y |-> 100, u |-> 129, v |-> 127]
  /\ RgbAt(tr.out, <<0, 0>>) = <<99, 100, 101>>

\* C10 as stated: with width, height >= 0, strides > 0 and planes of
\* height*yRowStride and ceil(height/2)*uvRowStride bytes, every plane index
\* a kernel reads is inside its plane.
C10_ReadsInBounds ==
  kernel # "none" => ~OutOfBounds(tr)

\* C10 amended: when also yRowStride >= width and
\* uvRowStride > (ceil(width/2) - 1) * uvPixelStride, every plane index a
\* kernel reads is inside its plane.
C10_ReadsInBoundsOfValidLayout ==
  (kernel # "none" /\ LayoutValid) =>
    /\ tr.yRead \subseteq DOMAIN yPlane
    /\ tr.uvRead \subseteq DOMAIN uPlane
    /\ tr.uvRead \subseteq DOMAIN vPlane

C10_Witness ==
  /\ KernelReturned /\ kernel = "neon"
  /\ width = 16 /\ height = 3 /\ uvPixelStride = 2
  /\ uvRowStride = 15 /\ yRowStride = 16
  /\ 47 \in tr.yRead /\ 29 \in tr.uvRead

====
